---------------------------- MODULE Spec2Model ----------------------------
(***************************************************************************)
(* A model of email_spoofing_check.py: one run of main(), the resolver     *)
(* wrapper query_txt, the analyzers analyze_spf, analyze_dmarc and         *)
(* detect_dkim, and the decision table classify_overall.                   *)
(*                                                                         *)
(* Text is modelled by TLA+ strings; str.lower, str.strip, str.startswith  *)
(* and the `in` substring test are computed character by character.       *)
(* The program's Portuguese texts are written without their accents        *)
(* ("Medio" for the source's accented word, and so on).                    *)
(* The DNS resolver is the environment: each query receives one outcome    *)
(* (an answer of TXT resource records, NoAnswer, NXDOMAIN, a timeout or    *)
(* another error) drawn from a bounded set.                                *)
(***************************************************************************)
EXTENDS Integers, Sequences, FiniteSets, TLC

VARIABLES
    argv,          \* sys.argv: the program name followed by the arguments
    pc,            \* position of the run in main()
    domain,        \* main's `domain`
    queries,       \* the resolve() calls issued so far, in order
    spf_result,    \* main's `spf_result`
    dmarc_result,  \* main's `dmarc_result`
    sel,           \* detect_dkim: index of the next selector to probe
    found,         \* detect_dkim's `found`
    dkim_result,   \* main's `dkim_result`
    overall_risk,  \* main's `overall_risk`
    output,        \* what the run has printed: one string per print() call
    exit_status,   \* <<>> while running, <<n>> once the process has ended
    kinds,         \* history: the classes of outcome the run's queries received
    observed       \* history: the resolver outcomes handed to the function under study

vars == <<argv, pc, domain, queries, spf_result, dmarc_result, sel, found,
          dkim_result, overall_risk, output, exit_status, kinds, observed>>

-----------------------------------------------------------------------------
(* Bounds of the model *)

\* most TXT resource records in one DNS answer
MaxRecords == 2
\* most command-line arguments after the program name
MaxArgs == 2

-----------------------------------------------------------------------------
(* Python strings *)

Upper == <<"A","B","C","D","E","F","G","H","I","J","K","L","M",
           "N","O","P","Q","R","S","T","U","V","W","X","Y","Z">>
LowerCase == <<"a","b","c","d","e","f","g","h","i","j","k","l","m",
           "n","o","p","q","r","s","t","u","v","w","x","y","z">>

\* the character at position i of s
CharAt(s, i) == SubSeq(s, i, i)

\* str.lower() on one character
LowerChar(c) ==
    IF \E k \in 1..Len(Upper) : Upper[k] = c
    THEN LowerCase[CHOOSE k \in 1..Len(Upper) : Upper[k] = c]
    ELSE c

RECURSIVE LowerFrom(_, _)
LowerFrom(s, i) ==
    IF i > Len(s) THEN "" ELSE LowerChar(CharAt(s, i)) \o LowerFrom(s, i + 1)

\* str.lower()
Lower(s) == LowerFrom(s, 1)

\* str.startswith(p)
StartsWith(s, p) == Len(p) <= Len(s) /\ SubSeq(s, 1, Len(p)) = p

\* the substring test `sub in s`
Contains(s, sub) ==
    \E i \in 1..(Len(s) - Len(sub) + 1) : SubSeq(s, i, i + Len(sub) - 1) = sub

Whitespace == {" ", "\t", "\n", "\r"}

\* str.strip(): drop leading and trailing whitespace
Strip(s) ==
    LET keep == {i \in 1..Len(s) : CharAt(s, i) \notin Whitespace}
    IN  IF keep = {} THEN ""
        ELSE SubSeq(s, CHOOSE i \in keep : \A j \in keep : i <= j,
                       CHOOSE i \in keep : \A j \in keep : j <= i)

\* sep.join(parts)
RECURSIVE Join(_, _)
Join(parts, sep) ==
    IF parts = <<>> THEN ""
    ELSE IF Len(parts) = 1 THEN parts[1]
    ELSE parts[1] \o sep \o Join(Tail(parts), sep)

\* str(b) for a bool
StrBool(b) == IF b THEN "True" ELSE "False"

\* how print() shows None
PyNone == "None"

-----------------------------------------------------------------------------
(* Module constants *)

TIMEOUT == 5

COMMON_DKIM_SELECTORS ==
    <<"default", "selector1", "selector2", "google", "mail", "smtp">>

-----------------------------------------------------------------------------
(* The resolver and query_txt *)

\* a TXT character-string that is not valid UTF-8
BadBytes == "<0xff>"

DecodeErrorText == "'utf-8' codec can't decode byte 0xff in position 0: invalid start byte"

\* b"".join(r.strings).decode(): the segments of one resource record as one string
Decodable(rr) == \A k \in 1..Len(rr) : rr[k] # BadBytes
JoinStrings(rr) == Join(rr, "")

\* the resolve() call query_txt makes for `name`
Resolve(name) == [name |-> name, rdtype |-> "TXT", lifetime |-> TIMEOUT]

\* query_txt without the handler of line 45: another error leaves the function
query_txt_uncaught(o) ==
    IF o.kind = "Answer"
    THEN IF \A k \in 1..Len(o.rrs) : Decodable(o.rrs[k])
         THEN [raised |-> FALSE,
               value  |-> [k \in 1..Len(o.rrs) |-> JoinStrings(o.rrs[k])]]
         ELSE [raised |-> TRUE, value |-> <<>>]
    ELSE IF o.kind \in {"NoAnswer", "NXDOMAIN"}
    THEN [raised |-> FALSE, value |-> <<>>]
    ELSE IF o.kind = "Timeout"
    THEN [raised |-> FALSE, value |-> <<"TIMEOUT">>]
    ELSE [raised |-> TRUE, value |-> <<>>]

\* query_txt on the outcome o of resolve(): the list it returns, or the
\* exception it lets through (raised), which none of the outcomes is.
query_txt(o) ==
    IF o.kind = "Answer"
    THEN IF \A k \in 1..Len(o.rrs) : Decodable(o.rrs[k])
         THEN [raised |-> FALSE,
               value  |-> [k \in 1..Len(o.rrs) |-> JoinStrings(o.rrs[k])]]
         ELSE [raised |-> FALSE, value |-> <<"ERROR: " \o DecodeErrorText>>]
    ELSE IF o.kind \in {"NoAnswer", "NXDOMAIN"}
    THEN [raised |-> FALSE, value |-> <<>>]
    ELSE IF o.kind = "Timeout"
    THEN [raised |-> FALSE, value |-> <<"TIMEOUT">>]
    ELSE [raised |-> FALSE, value |-> <<"ERROR: " \o o.msg>>]

-----------------------------------------------------------------------------
(* The analyzers *)

\* the filter with `prefix in r.lower()` for startswith
RECURSIVE FilterPrefix_contains(_, _)
FilterPrefix_contains(records, prefix) ==
    IF records = <<>> THEN <<>>
    ELSE IF Contains(Lower(Head(records)), prefix)
         THEN <<Head(records)>> \o FilterPrefix_contains(Tail(records), prefix)
         ELSE FilterPrefix_contains(Tail(records), prefix)

\* [r for r in records if r.lower().startswith(prefix)]
RECURSIVE FilterPrefix(_, _)
FilterPrefix(records, prefix) ==
    IF records = <<>> THEN <<>>
    ELSE IF StartsWith(Lower(Head(records)), prefix)
         THEN <<Head(records)>> \o FilterPrefix(Tail(records), prefix)
         ELSE FilterPrefix(Tail(records), prefix)

\* the dictionaries analyze_spf returns
SpfAbsent ==
    [exists |-> FALSE, policy |-> PyNone, risk |-> "Alto", note |-> "SPF ausente"]
SpfPresent(policy, risk) ==
    [exists |-> TRUE, policy |-> policy, risk |-> risk, note |-> "SPF presente"]

\* the SPF tests with ~all tried before -all
SpfClassify_softfail_first(spf) ==
    IF Contains(spf, "~all") THEN SpfPresent("~all", "Medio")
    ELSE IF Contains(spf, "-all") THEN SpfPresent("-all", "Baixo")
    ELSE IF Contains(spf, "+all") \/ Contains(spf, " all") THEN SpfPresent("+all", "Alto")
    ELSE SpfPresent("sem all", "Medio")

\* analyze_spf, lines 61-79: the policy of the lowercased record spf
SpfClassify(spf) ==
    IF Contains(spf, "-all") THEN SpfPresent("-all", "Baixo")
    ELSE IF Contains(spf, "~all") THEN SpfPresent("~all", "Medio")
    ELSE IF Contains(spf, "+all") \/ Contains(spf, " all") THEN SpfPresent("+all", "Alto")
    ELSE SpfPresent("sem all", "Medio")

\* analyze_spf taking the last matching record, spf_records[-1]
analyze_spf_last_match(txt_records) ==
    LET spf_records == FilterPrefix(txt_records, "v=spf1")
    IN  IF spf_records = <<>>
        THEN SpfAbsent
        ELSE SpfClassify(Lower(spf_records[Len(spf_records)]))

analyze_spf(txt_records) ==
    LET spf_records == FilterPrefix(txt_records, "v=spf1")
    IN  IF spf_records = <<>>
        THEN SpfAbsent
        ELSE SpfClassify(Lower(spf_records[1]))

\* the dictionaries analyze_dmarc returns
DmarcAbsent ==
    [exists |-> FALSE, policy |-> PyNone, risk |-> "Alto", note |-> "DMARC ausente"]
DmarcPresent(policy, risk) ==
    [exists |-> TRUE, policy |-> policy, risk |-> risk, note |-> "DMARC presente"]

\* the DMARC tests with p=quarantine tried before p=reject
DmarcClassify_quarantine_first(dmarc) ==
    IF Contains(dmarc, "p=quarantine") THEN DmarcPresent("quarantine", "Medio")
    ELSE IF Contains(dmarc, "p=reject") THEN DmarcPresent("reject", "Baixo")
    ELSE DmarcPresent("none", "Alto")

\* analyze_dmarc, lines 95-110: the policy of the lowercased record dmarc
DmarcClassify(dmarc) ==
    IF Contains(dmarc, "p=reject") THEN DmarcPresent("reject", "Baixo")
    ELSE IF Contains(dmarc, "p=quarantine") THEN DmarcPresent("quarantine", "Medio")
    ELSE DmarcPresent("none", "Alto")

\* analyze_dmarc after its query: `records` is what query_txt returned
analyze_dmarc(records) ==
    LET dmarc_records == FilterPrefix(records, "v=dmarc1")
    IN  IF dmarc_records = <<>>
        THEN DmarcAbsent
        ELSE DmarcClassify(Lower(dmarc_records[1]))

\* detect_dkim's inner loop: one append per record that starts with v=dkim1
RECURSIVE AppendMatches(_, _, _)
AppendMatches(fnd, records, selector) ==
    IF records = <<>> THEN fnd
    ELSE AppendMatches(
            IF StartsWith(Lower(Head(records)), "v=dkim1")
            THEN Append(fnd, selector) ELSE fnd,
            Tail(records), selector)

\* detect_dkim's return value for the list `found`
dkim_return(fnd) ==
    IF fnd # <<>>
    THEN [exists |-> TRUE, selectors |-> fnd,
          note |-> "DKIM identificado (parcial)"]
    ELSE [exists |-> FALSE, selectors |-> <<>>,
          note |-> "DKIM nao identificado (selectors comuns)"]

\* classify_overall with the Medio row tried before the Alto row
classify_overall_medium_first(spf, dmarc) ==
    IF ~spf.exists /\ ~dmarc.exists THEN "Alto"
    ELSE IF spf.risk = "Medio" \/ dmarc.risk = "Medio" THEN "Medio"
    ELSE IF spf.risk = "Alto" \/ dmarc.risk = "Alto" THEN "Alto"
    ELSE "Baixo"

\* classify_overall with `and` for `or` in the Medio row
classify_overall_both_medium(spf, dmarc) ==
    IF ~spf.exists /\ ~dmarc.exists THEN "Alto"
    ELSE IF spf.risk = "Alto" \/ dmarc.risk = "Alto" THEN "Alto"
    ELSE IF spf.risk = "Medio" /\ dmarc.risk = "Medio" THEN "Medio"
    ELSE "Baixo"

classify_overall(spf, dmarc) ==
    IF ~spf.exists /\ ~dmarc.exists THEN "Alto"
    ELSE IF spf.risk = "Alto" \/ dmarc.risk = "Alto" THEN "Alto"
    ELSE IF spf.risk = "Medio" \/ dmarc.risk = "Medio" THEN "Medio"
    ELSE "Baixo"


-----------------------------------------------------------------------------
(* The report main() prints *)

SpoofingWarning == "[!] Possivel cenario de Email Spoofing identificado."
AdequateConfiguration == "[+] Configuracao adequada contra spoofing."

UsageLine(args) == "Uso: " \o args[1] \o " dominio.com"

HeaderLine(d) == "\n[+] Analisando dominio: " \o d \o "\n"

\* the print() calls of main from the banner to the verdict line
Report(spf, dmarc, dkim, overall) ==
    << "=== RESULTADO ===\n",
       "[SPF]",
       "  Existe      : " \o StrBool(spf.exists),
       "  Politica    : " \o spf.policy,
       "  Risco       : " \o spf.risk,
       "  Observacao  : " \o spf.note \o "\n",
       "[DMARC]",
       "  Existe      : " \o StrBool(dmarc.exists),
       "  Politica    : " \o dmarc.policy,
       "  Risco       : " \o dmarc.risk,
       "  Observacao  : " \o dmarc.note \o "\n",
       "[DKIM]",
       "  Existe      : " \o StrBool(dkim.exists),
       "  Selectors   : " \o (IF dkim.selectors # <<>>
                              THEN Join(dkim.selectors, ", ") ELSE "Nenhum"),
       "  Observacao  : " \o dkim.note \o "\n",
       "[CLASSIFICACAO FINAL]",
       "  Risco Geral : " \o overall \o "\n",
       IF overall # "Baixo" THEN SpoofingWarning ELSE AdequateConfiguration >>

-----------------------------------------------------------------------------
(* The environment: command lines and resolver outcomes *)

ProgramName == "email_spoofing_check.py"

Arguments == {" Example.COM "}

\* every sys.argv with at most MaxArgs arguments
CommandLines ==
    UNION { { <<ProgramName>> \o a : a \in [1..n -> Arguments] } : n \in 0..MaxArgs }

NoAnswer == [kind |-> "NoAnswer"]
NXDOMAIN == [kind |-> "NXDOMAIN"]
Timeout  == [kind |-> "Timeout"]
Error(m) == [kind |-> "Error", msg |-> m]
Answer(rrs) == [kind |-> "Answer", rrs |-> rrs]

\* outcomes of resolve() that carry no record
Failures ==
    { NoAnswer, NXDOMAIN, Timeout,
      Error("All nameservers failed to answer the query."),
      Error("A DNS label is empty.") }

\* what a query received: records, nothing, or a failure of the resolution
OutcomeClass(o) ==
    IF o.kind = "Answer" THEN "Answer"
    ELSE IF o.kind \in {"NoAnswer", "NXDOMAIN"} THEN "Empty"
    ELSE "Failed"

\* the variables of a run that has not yet set them
Unset == [exists |-> FALSE, policy |-> "", risk |-> "", note |-> ""]
UnsetDkim == [exists |-> FALSE, selectors |-> <<>>, note |-> ""]

\* TXT resource records (each a tuple of character-strings) served in a run
RootAnswers ==
    { Answer(<< <<"v=spf1 -all">> >>),
      Answer(<< <<"v=spf1 include:_spf.example.com ~all">> >>),
      Answer(<< <<"v=spf1 +all">> >>),
      Answer(<< <<"v=spf1 include:_spf.example.com">> >>),
      Answer(<< <<"google-site-verification=abc">>, <<"V=SPF1 mx ", "-ALL">> >>),
      Answer(<< <<"google-site-verification=abc">> >>),
      Answer(<< <<BadBytes>> >>) }

DmarcAnswers ==
    { Answer(<< <<"v=DMARC1; p=reject; rua=mailto:d@example.com">> >>),
      Answer(<< <<"v=DMARC1; p=quarantine">> >>),
      Answer(<< <<"v=DMARC1; p=none">> >>),
      Answer(<< <<"v=spf1 -all">> >>) }

DkimAnswers ==
    { Answer(<< <<"v=DKIM1; k=rsa; p=MIGf">> >>),
      Answer(<< <<"v=DKIM1; k=rsa; p=MIGf">>, <<"V=dkim1; k=ed25519; p=11qY">> >>),
      Answer(<< <<"k=rsa; v=DKIM1; p=MIGf">>, <<"v=DKIM1; k=rsa; ", "p=MIGf">> >>),
      Answer(<< <<"k=rsa; p=MIGf">> >>) }

-----------------------------------------------------------------------------
(* main() *)

\* An exception leaving main(): Python prints the traceback and ends with status 1.
Abort ==
    /\ pc' = "aborted"
    /\ exit_status' = <<1>>

\* main, lines 148-150: wrong argument count
Usage ==
    /\ pc = "start"
    /\ Len(argv) # 2
    /\ output' = Append(output, UsageLine(argv))
    /\ exit_status' = <<1>>
    /\ pc' = "exited"
    /\ UNCHANGED <<argv, domain, queries, spf_result, dmarc_result, sel, found,
                   dkim_result, overall_risk, kinds, observed>>

\* main with `len(sys.argv) < 2` as its usage test: extra arguments go unnoticed
Begin_at_least_one ==
    /\ pc = "start"
    /\ Len(argv) >= 2
    /\ domain' = Lower(Strip(argv[2]))
    /\ output' = Append(output, HeaderLine(domain'))
    /\ pc' = "spf"
    /\ UNCHANGED <<argv, queries, spf_result, dmarc_result, sel, found,
                   dkim_result, overall_risk, exit_status, kinds, observed>>

\* main, lines 152-154
Begin ==
    /\ pc = "start"
    /\ Len(argv) = 2
    /\ domain' = Lower(Strip(argv[2]))
    /\ output' = Append(output, HeaderLine(domain'))
    /\ pc' = "spf"
    /\ UNCHANGED <<argv, queries, spf_result, dmarc_result, sel, found,
                   dkim_result, overall_risk, exit_status, kinds, observed>>

\* main, lines 156-157, when the query on <domain> ends in outcome o
SpfStep(o) ==
    /\ pc = "spf"
    /\ queries' = Append(queries, Resolve(domain))
    /\ kinds' = kinds \cup {OutcomeClass(o)}
    /\ LET txt_records == query_txt(o)
       IN  IF txt_records.raised
           THEN Abort /\ UNCHANGED spf_result
           ELSE /\ spf_result' = analyze_spf(txt_records.value)
                /\ pc' = "dmarc"
                /\ UNCHANGED exit_status
    /\ UNCHANGED <<argv, domain, dmarc_result, sel, found, dkim_result,
                   overall_risk, output>>

\* main, line 158: analyze_dmarc(domain), its query ending in outcome o
DmarcStep(o) ==
    /\ pc = "dmarc"
    /\ queries' = Append(queries, Resolve("_dmarc." \o domain))
    /\ kinds' = kinds \cup {OutcomeClass(o)}
    /\ LET records == query_txt(o)
       IN  IF records.raised
           THEN Abort /\ UNCHANGED <<dmarc_result, sel, found>>
           ELSE /\ dmarc_result' = analyze_dmarc(records.value)
                /\ sel' = 1
                /\ found' = <<>>
                /\ pc' = "dkim"
                /\ UNCHANGED exit_status
    /\ UNCHANGED <<argv, domain, spf_result, dkim_result, overall_risk, output>>

\* the loop of detect_dkim asking again after a timeout or an error
DkimProbe_retry(o) ==
    /\ pc = "dkim"
    /\ sel <= Len(COMMON_DKIM_SELECTORS)
    /\ LET selector == COMMON_DKIM_SELECTORS[sel]
           name == selector \o "._domainkey." \o domain
           records == query_txt(o)
       IN  /\ queries' = Append(queries, Resolve(name))
           /\ kinds' = kinds \cup {OutcomeClass(o)}
           /\ IF records.raised
              THEN Abort /\ UNCHANGED <<sel, found>>
              ELSE /\ found' = AppendMatches(found, records.value, selector)
                   /\ sel' = IF OutcomeClass(o) = "Failed" THEN sel ELSE sel + 1
                   /\ UNCHANGED <<pc, exit_status>>
    /\ UNCHANGED <<argv, domain, spf_result, dmarc_result, dkim_result,
                   overall_risk, output>>

\* detect_dkim, lines 115-120: one pass of the loop over the selectors
DkimProbe(o) ==
    /\ pc = "dkim"
    /\ sel <= Len(COMMON_DKIM_SELECTORS)
    /\ LET selector == COMMON_DKIM_SELECTORS[sel]
           name == selector \o "._domainkey." \o domain
           records == query_txt(o)
       IN  /\ queries' = Append(queries, Resolve(name))
           /\ kinds' = kinds \cup {OutcomeClass(o)}
           /\ IF records.raised
              THEN Abort /\ UNCHANGED <<sel, found>>
              ELSE /\ found' = AppendMatches(found, records.value, selector)
                   /\ sel' = sel + 1
                   /\ UNCHANGED <<pc, exit_status>>
    /\ UNCHANGED <<argv, domain, spf_result, dmarc_result, dkim_result,
                   overall_risk, output>>

\* detect_dkim, lines 122-133, and main's assignment at line 159
DkimReturn ==
    /\ pc = "dkim"
    /\ sel > Len(COMMON_DKIM_SELECTORS)
    /\ dkim_result' = dkim_return(found)
    /\ pc' = "classify"
    /\ UNCHANGED <<argv, domain, queries, spf_result, dmarc_result, sel, found,
                   overall_risk, output, exit_status, kinds, observed>>

\* main, line 161
ClassifyStep ==
    /\ pc = "classify"
    /\ overall_risk' = classify_overall(spf_result, dmarc_result)
    /\ pc' = "report"
    /\ UNCHANGED <<argv, domain, queries, spf_result, dmarc_result, sel, found,
                   dkim_result, output, exit_status, kinds, observed>>

\* main, lines 163-188, and the end of the process
ReportStep ==
    /\ pc = "report"
    /\ output' = output \o Report(spf_result, dmarc_result, dkim_result, overall_risk)
    /\ exit_status' = <<0>>
    /\ pc' = "exited"
    /\ UNCHANGED <<argv, domain, queries, spf_result, dmarc_result, sel, found,
                   dkim_result, overall_risk, kinds, observed>>

\* the three kinds of query of a run, each with the outcomes it may receive
QueryRoot == \E o \in Failures \cup RootAnswers : SpfStep(o) /\ UNCHANGED observed
QueryDmarc == \E o \in Failures \cup DmarcAnswers : DmarcStep(o) /\ UNCHANGED observed
QueryDkim == \E o \in Failures \cup DkimAnswers : DkimProbe(o) /\ UNCHANGED observed

Init ==
    /\ argv \in CommandLines
    /\ pc = "start"
    /\ domain = ""
    /\ queries = <<>>
    /\ spf_result = Unset
    /\ dmarc_result = Unset
    /\ sel = 1
    /\ found = <<>>
    /\ dkim_result = UnsetDkim
    /\ overall_risk = ""
    /\ output = <<>>
    /\ exit_status = <<>>
    /\ kinds = {}
    /\ observed = <<>>

Next ==
    \/ Usage
    \/ Begin
    \/ QueryRoot
    \/ QueryDmarc
    \/ QueryDkim
    \/ DkimReturn
    \/ ClassifyStep
    \/ ReportStep

Spec == Init /\ [][Next]_vars

-----------------------------------------------------------------------------
(* The analyzers on their own: one query, every outcome *)

\* TXT resource records, each a tuple of character-strings
AnalyzeRRs ==
    { <<"v=spf1 -all">>,
      <<"v=spf1 ~all">>,
      <<"v=spf1 +all">>,
      <<"v=spf1 all">>,
      <<"v=spf1 ?all">>,
      <<"v=spf1 include:_spf.example.com">>,
      <<"V=SPF1 MX -ALL">>,
      <<"v=spf1 +all -all">>,
      <<"v=spf1 ~all -all">>,
      <<"v=spf1 all ~all">>,
      <<"v=spf1 include:not-all.example ~all">>,
      <<"v=spf1 exp=explain.example mx all.example">>,
      <<"v=spf10 +all">>,
      <<" v=spf1 -all">>,
      <<"spf2.0/pra v=spf1 -all">>,
      <<"v=sp", "f1 include:_spf.example.com ", "-all">>,
      <<"google-site-verification=abc">>,
      <<"TIMEOUT">>,
      <<BadBytes>>,
      <<"v=DMARC1; p=reject; rua=mailto:d@example.com">>,
      <<"v=DMARC1; p=quarantine">>,
      <<"v=DMARC1; p=none">>,
      <<"v=DMARC1">>,
      <<"v=DMARC1; p=none; sp=reject">>,
      <<"v=DMARC1; p=quarantine; sp=reject">>,
      <<"V=dmarc1; P=REJECT">>,
      <<"v=DMARC1; p=", "quarantine">>,
      <<"p=reject; v=DMARC1">> }

\* every outcome of one query: a failure, or one to MaxRecords records
AnalyzeOutcomes ==
    Failures \cup
    UNION { { Answer(rrs) : rrs \in [1..n -> AnalyzeRRs] } : n \in 1..MaxRecords }

ExampleDomain == "example.com"

\* the run on ExampleDomain before its first query, or after an empty one
InitAnalyze ==
    /\ argv = <<ProgramName, ExampleDomain>>
    /\ domain = ExampleDomain
    /\ output = <<HeaderLine(ExampleDomain)>>
    /\ exit_status = <<>>
    /\ dmarc_result = Unset
    /\ sel = 1
    /\ found = <<>>
    /\ dkim_result = UnsetDkim
    /\ overall_risk = ""
    /\ observed = <<>>
    /\ \/ pc = "spf" /\ queries = <<>> /\ kinds = {} /\ spf_result = Unset
       \/ /\ pc = "dmarc"
          /\ queries = <<Resolve(ExampleDomain)>>
          /\ kinds = {"Empty"}
          /\ spf_result = SpfAbsent

ObserveSpf ==
    /\ observed = <<>>
    /\ \E o \in AnalyzeOutcomes : SpfStep(o) /\ observed' = <<o>>

ObserveDmarc ==
    /\ observed = <<>>
    /\ \E o \in AnalyzeOutcomes : DmarcStep(o) /\ observed' = <<o>>

NextAnalyze == ObserveSpf \/ ObserveDmarc

SpecAnalyze == InitAnalyze /\ [][NextAnalyze]_vars

-----------------------------------------------------------------------------
(* detect_dkim on its own: every assignment of outcomes to the selectors *)

DkimOutcomes ==
    { NoAnswer, Timeout,
      Answer(<< <<"v=DKIM1; k=rsa; p=MIGf">> >>),
      Answer(<< <<"v=DKIM1; k=rsa; p=MIGf">>, <<"V=dkim1; k=ed25519; p=11qY">> >>),
      Answer(<< <<"k=rsa; v=DKIM1; p=MIGf">>, <<"v=DKIM1; k=rsa; ", "p=MIGf">> >>),
      Answer(<< <<"k=rsa; p=MIGf">> >>) }

\* the run on ExampleDomain at the call of detect_dkim, SPF and DMARC absent
InitDkim ==
    /\ argv = <<ProgramName, ExampleDomain>>
    /\ domain = ExampleDomain
    /\ output = <<HeaderLine(ExampleDomain)>>
    /\ exit_status = <<>>
    /\ pc = "dkim"
    /\ queries = <<Resolve(ExampleDomain), Resolve("_dmarc." \o ExampleDomain)>>
    /\ kinds = {"Empty"}
    /\ spf_result = SpfAbsent
    /\ dmarc_result = DmarcAbsent
    /\ sel = 1
    /\ found = <<>>
    /\ dkim_result = UnsetDkim
    /\ overall_risk = ""
    /\ observed = <<>>

ObserveDkim ==
    \E o \in DkimOutcomes : DkimProbe(o) /\ observed' = Append(observed, o)

NextDkim == ObserveDkim \/ DkimReturn

SpecDkim == InitDkim /\ [][NextDkim]_vars

-----------------------------------------------------------------------------
(* classify_overall on its own: every pair of assessments *)

RiskLevels == {"Baixo", "Medio", "Alto"}

SpfAssessments ==
    [exists : BOOLEAN, policy : {PyNone, "-all", "~all", "+all", "sem all"},
     risk : RiskLevels, note : {"SPF ausente", "SPF presente"}]

DmarcAssessments ==
    [exists : BOOLEAN, policy : {PyNone, "reject", "quarantine", "none"},
     risk : RiskLevels, note : {"DMARC ausente", "DMARC presente"}]

DkimAssessments ==
    { dkim_return(<<>>), dkim_return(<<"selector1">>),
      dkim_return(<<"default", "google", "google">>) }

\* the run on ExampleDomain at the call of classify_overall
InitClassify ==
    /\ argv = <<ProgramName, ExampleDomain>>
    /\ domain = ExampleDomain
    /\ output = <<HeaderLine(ExampleDomain)>>
    /\ exit_status = <<>>
    /\ pc = "classify"
    /\ queries = <<Resolve(ExampleDomain), Resolve("_dmarc." \o ExampleDomain)>>
                 \o [k \in 1..Len(COMMON_DKIM_SELECTORS) |->
                        Resolve(COMMON_DKIM_SELECTORS[k] \o "._domainkey." \o ExampleDomain)]
    /\ kinds = {"Answer"}
    /\ spf_result \in SpfAssessments
    /\ dmarc_result \in DmarcAssessments
    /\ dkim_result \in DkimAssessments
    /\ sel = Len(COMMON_DKIM_SELECTORS) + 1
    /\ found = dkim_result.selectors
    /\ overall_risk = ""
    /\ observed = <<>>

NextClassify == ClassifyStep \/ ReportStep

SpecClassify == InitClassify /\ [][NextClassify]_vars

-----------------------------------------------------------------------------
(* Properties *)

Last(seq) == seq[Len(seq)]

\* the records an analyzer received from the observed query
ObservedRecords == query_txt(observed[1]).value

AfterSpf == pc = "dmarc" /\ observed # <<>>
AfterDmarc == pc = "dkim" /\ observed # <<>>

Matches(r, prefix) == StartsWith(Lower(r), prefix)
SomeMatch(recs, prefix) == \E k \in 1..Len(recs) : Matches(recs[k], prefix)

\* the first record of recs whose lowercase form starts with prefix
FirstMatch(recs, prefix) ==
    recs[CHOOSE k \in 1..Len(recs) :
            /\ Matches(recs[k], prefix)
            /\ \A j \in 1..(k - 1) : ~Matches(recs[j], prefix)]

Rank(risk) == CASE risk = "Baixo" -> 1 [] risk = "Medio" -> 2 [] risk = "Alto" -> 3

Max(a, b) == IF a >= b THEN a ELSE b

\* C1: classify_overall returns the first matching row of the decision table
\* (neither exists: Alto; else either risk Alto: Alto; else either risk Medio:
\* Medio; else Baixo), whatever the DKIM assessment of the run is.
C1_DecisionTable ==
    pc \in {"report", "exited"} =>
        LET neither == ~spf_result.exists /\ ~dmarc_result.exists
            high == spf_result.risk = "Alto" \/ dmarc_result.risk = "Alto"
            medium == spf_result.risk = "Medio" \/ dmarc_result.risk = "Medio"
        IN  /\ neither => overall_risk = "Alto"
            /\ (~neither /\ high) => overall_risk = "Alto"
            /\ (~neither /\ ~high /\ medium) => overall_risk = "Medio"
            /\ (~neither /\ ~high /\ ~medium) => overall_risk = "Baixo"
            /\ pc = "exited" => output[Len(output) - 1] = "  Risco Geral : " \o overall_risk \o "\n"

\* the first row decides alone (no risk is Alto), with DKIM identified
C1_Witness ==
    /\ pc = "exited"
    /\ ~spf_result.exists /\ ~dmarc_result.exists
    /\ spf_result.risk = "Baixo" /\ dmarc_result.risk = "Medio"
    /\ dkim_result.exists
    /\ overall_risk = "Alto"

\* C2: when some record starts with v=spf1, analyze_spf classifies the chosen
\* record by substring, first match wins: -all (Baixo), ~all (Medio), +all or
\* " all" (policy +all, Alto), else "sem all" (Medio); exists is true and the
\* note is "SPF presente".
C2_SpfPrecedence ==
    (AfterSpf /\ SomeMatch(ObservedRecords, "v=spf1")) =>
        LET spf == Lower(FirstMatch(ObservedRecords, "v=spf1"))
            hard == Contains(spf, "-all")
            soft == Contains(spf, "~all")
            allow == Contains(spf, "+all") \/ Contains(spf, " all")
        IN  /\ spf_result.exists = TRUE
            /\ spf_result.note = "SPF presente"
            /\ hard => spf_result.policy = "-all" /\ spf_result.risk = "Baixo"
            /\ (~hard /\ soft) => spf_result.policy = "~all" /\ spf_result.risk = "Medio"
            /\ (~hard /\ ~soft /\ allow) =>
                   spf_result.policy = "+all" /\ spf_result.risk = "Alto"
            /\ (~hard /\ ~soft /\ ~allow) =>
                   spf_result.policy = "sem all" /\ spf_result.risk = "Medio"

\* a record holding both ~all and -all takes the -all rule
C2_Witness ==
    /\ AfterSpf
    /\ ObservedRecords = <<"v=spf1 ~all -all">>
    /\ spf_result.policy = "-all"

\* C3: analyze_dmarc returns the DMARC-absent assessment when no record starts
\* with v=dmarc1; otherwise p=reject gives Baixo, else p=quarantine gives Medio,
\* else policy "none" and Alto.
C3_DmarcClassification ==
    AfterDmarc =>
        IF ~SomeMatch(ObservedRecords, "v=dmarc1")
        THEN dmarc_result = [exists |-> FALSE, policy |-> "None", risk |-> "Alto",
                             note |-> "DMARC ausente"]
        ELSE LET dmarc == Lower(FirstMatch(ObservedRecords, "v=dmarc1"))
                 reject == Contains(dmarc, "p=reject")
                 quarantine == Contains(dmarc, "p=quarantine")
             IN  /\ dmarc_result.exists = TRUE
                 /\ reject => dmarc_result.risk = "Baixo"
                 /\ (~reject /\ quarantine) => dmarc_result.risk = "Medio"
                 /\ (~reject /\ ~quarantine) =>
                        dmarc_result.policy = "none" /\ dmarc_result.risk = "Alto"

\* a record with neither p=reject nor p=quarantine
C3_Witness ==
    /\ AfterDmarc
    /\ ObservedRecords = <<"v=DMARC1">>
    /\ dmarc_result.policy = "none"
    /\ dmarc_result.risk = "Alto"

\* C4: analyze_spf returns exists false, policy None, risk Alto and "SPF
\* ausente" when no record's lowercase form starts with v=spf1 (the empty list
\* included), and exists true when some record's does.
C4_SpfAbsent ==
    AfterSpf =>
        IF SomeMatch(ObservedRecords, "v=spf1")
        THEN spf_result.exists = TRUE
        ELSE spf_result = [exists |-> FALSE, policy |-> "None", risk |-> "Alto",
                           note |-> "SPF ausente"]

\* two records that hold v=spf1, neither at the start
C4_Witness ==
    /\ AfterSpf
    /\ ObservedRecords = <<" v=spf1 -all", "spf2.0/pra v=spf1 -all">>
    /\ ~spf_result.exists

\* whether the resolver outcome o holds a record that starts with v=dkim1
HasDkimRecord(o) ==
    /\ o.kind = "Answer"
    /\ \E k \in 1..Len(o.rrs) : Matches(JoinStrings(o.rrs[k]), "v=dkim1")

\* the selectors, in list order, whose outcome in obs holds such a record
RECURSIVE MatchedSelectors(_, _)
MatchedSelectors(obs, k) ==
    IF k > Len(obs) THEN <<>>
    ELSE (IF HasDkimRecord(obs[k]) THEN <<COMMON_DKIM_SELECTORS[k]>> ELSE <<>>)
         \o MatchedSelectors(obs, k + 1)

\* C5: detect_dkim's selector list holds exactly the selectors with at least
\* one v=dkim1 record, in list order, none more than once; exists is true
\* exactly when the list is not empty.
C5_SelectorsOnce ==
    pc = "classify" =>
        /\ dkim_result.selectors = MatchedSelectors(observed, 1)
        /\ \A i, j \in 1..Len(dkim_result.selectors) :
               i # j => dkim_result.selectors[i] # dkim_result.selectors[j]
        /\ dkim_result.exists <=> (dkim_result.selectors # <<>>)

\* the report of a run whose queries found no record
NoRecordReport(d) ==
    << "\n[+] Analisando dominio: " \o d \o "\n",
       "=== RESULTADO ===\n",
       "[SPF]",
       "  Existe      : False",
       "  Politica    : None",
       "  Risco       : Alto",
       "  Observacao  : SPF ausente\n",
       "[DMARC]",
       "  Existe      : False",
       "  Politica    : None",
       "  Risco       : Alto",
       "  Observacao  : DMARC ausente\n",
       "[DKIM]",
       "  Existe      : False",
       "  Selectors   : Nenhum",
       "  Observacao  : DKIM nao identificado (selectors comuns)\n",
       "[CLASSIFICACAO FINAL]",
       "  Risco Geral : Alto\n",
       "[!] Possivel cenario de Email Spoofing identificado." >>

\* C6: a run with one argument never aborts, whatever its queries receive: it
\* can always take its next step until it has printed the report and exited 0;
\* each analyzer gives on a timeout or an error what it gives on an empty
\* result; and when no query received records (every one timed out, failed or
\* was empty) the report is the no-record report.
C6_NeverAborts ==
    /\ pc # "aborted"
    /\ pc = "start" =>  \* a fact about the functions: evaluated once per run
           \A o \in Failures :
               /\ analyze_spf(query_txt(o).value) = analyze_spf(<<>>)
               /\ analyze_dmarc(query_txt(o).value) = analyze_dmarc(<<>>)
               /\ \A k \in 1..Len(COMMON_DKIM_SELECTORS) :
                      AppendMatches(<<>>, query_txt(o).value, COMMON_DKIM_SELECTORS[k]) = <<>>
    /\ (Len(argv) = 2 /\ pc # "exited") => ENABLED Next
    /\ (Len(argv) = 2 /\ pc = "exited") =>
           /\ exit_status = <<0>>
           /\ Len(output) = Len(NoRecordReport(domain))
           /\ Last(output) \in {SpoofingWarning, AdequateConfiguration}
           /\ "Answer" \notin kinds => output = NoRecordReport(domain)

\* every query of a finished run timed out or failed
C6_Witness ==
    /\ pc = "exited"
    /\ kinds = {"Failed"}
    /\ Len(queries) = 8
    /\ exit_status = <<0>>

\* C7: with an argument count other than 1 the run prints the usage line and
\* exits 1 with no query issued and no report line printed; with one argument
\* it never exits 1, and has exited 0 only with the whole report printed.
C7_UsageError ==
    /\ Len(argv) # 2 =>
           /\ queries = <<>>
           /\ pc \in {"start", "exited"}
           /\ pc = "start" => output = <<>> /\ exit_status = <<>>
           /\ pc = "exited" =>
                  /\ output = <<"Uso: email_spoofing_check.py dominio.com">>
                  /\ exit_status = <<1>>
    /\ Len(argv) = 2 =>
           /\ exit_status # <<1>>
           /\ exit_status = <<0>> =>
                  /\ pc = "exited"
                  /\ output = <<HeaderLine(domain)>>
                         \o Report(spf_result, dmarc_result, dkim_result, overall_risk)

\* a run with two arguments has ended on the usage line
C7_Witness ==
    /\ Len(argv) = 3
    /\ pc = "exited"
    /\ exit_status = <<1>>

\* the names a run queries, in order
ExpectedNames(d) ==
    << d,
       "_dmarc." \o d,
       "default._domainkey." \o d,
       "selector1._domainkey." \o d,
       "selector2._domainkey." \o d,
       "google._domainkey." \o d,
       "mail._domainkey." \o d,
       "smtp._domainkey." \o d >>

\* C8: a run with one argument issues exactly eight TXT queries, once each and
\* in the fixed order, whatever the earlier queries received.
C8_EightQueries ==
    /\ Len(queries) <= Len(ExpectedNames(domain))
    /\ \A k \in 1..Len(queries) :
           /\ queries[k].name = ExpectedNames(domain)[k]
           /\ queries[k].rdtype = "TXT"
    /\ (Len(argv) = 2 /\ pc = "exited") => Len(queries) = 8
    /\ pc = "dkim" => Len(queries) = sel + 1

\* a finished run that met records, empty answers and failures
C8_Witness ==
    /\ pc = "exited"
    /\ kinds = {"Answer", "Empty", "Failed"}
    /\ Len(found) >= 2
    /\ Len(queries) = 8

\* C9: analyze_spf and analyze_dmarc classify only the first record that starts
\* with the version prefix: the result is that of the list holding this record
\* alone, whatever precedes or follows it.
C9_FirstMatchOnly ==
    /\ (AfterSpf /\ SomeMatch(ObservedRecords, "v=spf1")) =>
           /\ spf_result = analyze_spf(<<FirstMatch(ObservedRecords, "v=spf1")>>)
           /\ ObservedRecords = <<"v=spf1 +all", "v=spf1 -all">> =>
                  spf_result.risk = "Alto"
    /\ (AfterDmarc /\ SomeMatch(ObservedRecords, "v=dmarc1")) =>
           /\ dmarc_result = analyze_dmarc(<<FirstMatch(ObservedRecords, "v=dmarc1")>>)
           /\ ObservedRecords = <<"v=DMARC1; p=none", "V=dmarc1; P=REJECT">> =>
                  dmarc_result.risk = "Alto"

\* a first SPF record with +all followed by one with -all
C9_Witness ==
    /\ AfterSpf
    /\ ObservedRecords = <<"v=spf1 +all", "v=spf1 -all">>
    /\ spf_result.risk = "Alto"

\* C10: in a run an assessment with exists false has risk Alto, the overall
\* risk is the greater of the SPF and DMARC risks, and the last line is the
\* adequate-configuration line exactly when SPF and DMARC both exist with risk
\* Baixo (policies -all and reject), the spoofing warning otherwise.
C10_VerdictIsMax ==
    Len(argv) = 2 =>
        /\ (pc \notin {"start", "spf"} /\ ~spf_result.exists) =>
               spf_result.risk = "Alto"
        /\ (pc \notin {"start", "spf", "dmarc"} /\ ~dmarc_result.exists) =>
               dmarc_result.risk = "Alto"
        /\ pc \in {"report", "exited"} =>
               Rank(overall_risk) = Max(Rank(spf_result.risk), Rank(dmarc_result.risk))
        /\ pc = "exited" =>
               LET both == /\ spf_result.exists /\ spf_result.risk = "Baixo"
                           /\ dmarc_result.exists /\ dmarc_result.risk = "Baixo"
               IN  /\ both <=> (spf_result.policy = "-all" /\ dmarc_result.policy = "reject")
                   /\ both => Last(output) = AdequateConfiguration
                   /\ ~both => Last(output) = SpoofingWarning

\* a run that ends on the adequate-configuration line
C10_Witness ==
    /\ pc = "exited"
    /\ Last(output) = AdequateConfiguration
    /\ spf_result.policy = "-all"
    /\ dmarc_result.policy = "reject"

=============================================================================
